---- MODULE Spec2Model ----
\* Model of pkg/client/init.go of openshift-SNO-upgrade-recovery: the hub-side
\* client that creates ManagedClusterAction / ManagedClusterView objects from
\* templates in the namespace of a spoke cluster (LaunchKubernetesObjects),
\* reads or deletes them (ManageObjects) and polls the view's conditions
\* (CheckStatus).
\*
\* The remote API is the environment: every remote call may fail with a
\* transport error, a create of a present object answers AlreadyExists, a get
\* or delete of an absent object answers NotFound, and the status a get returns
\* of a present view is whatever the remote agent wrote last (any value).
\* The API group of a resource collection is not part of an object's key.
EXTENDS Integers, Sequences, FiniteSets, TLC

VARIABLES objs, inv, prev, runs

vars == <<objs, inv, prev, runs>>

-----------------------------------------------------------------------------
\* Bounds of the model

MaxRuns == 2
MaxConds == 2

\* c.Spoke: the names of the spoke clusters; a cluster's namespace has its name
Clusters == {"spoke1", "spoke2"}

\* the namespace field of a log entry of a local operation
NoNs == "-"

-----------------------------------------------------------------------------
\* Program constants and data

MCA == "managedclusteractions"
MCV == "managedclusterviews"

ActionCreateTemplates ==
    << "backup-create-namespace", "backup-create-serviceaccount",
       "backup-create-rolebinding", "backup-create-job" >>

ViewCreateTemplates == << "backup-create-clusterview" >>

JobDeleteTemplates == << "backup-delete-ns" >>

TemplateLists == {ActionCreateTemplates, ViewCreateTemplates, JobDeleteTemplates}

\* for i := 0; i < 10; i++
MaxAttempts == 10

\* The kind a template's document declares: the view template is a
\* ManagedClusterView, every other template a ManagedClusterAction.
KindOf(name) ==
    IF name = "backup-create-clusterview" THEN "ManagedClusterView"
    ELSE "ManagedClusterAction"

\* mapper.RESTMapping: the resource collection of a kind
RESTMapping(kind) == IF kind = "ManagedClusterView" THEN MCV ELSE MCA

-----------------------------------------------------------------------------
\* Errors. An error value is what its producer made it: kind is the class of
\* the error and step the template name its text carries (NoStep when none).

NoStep == "-"

Err(kind, step) == [kind |-> kind, step |-> step]

\* the nil error
Nil == Err("nil", NoStep)

\* A test that takes every error for "already exists"
IsAlreadyExistsAny(err) == err.kind /= "nil"

\* errors.IsAlreadyExists
IsAlreadyExists(err) == err.kind = "AlreadyExists"

-----------------------------------------------------------------------------
\* Remote objects and the remote API

\* A client that addresses one fixed namespace
KeyOneNamespace(ns, res, name) == [ns |-> "spoke1", res |-> res, name |-> name]

\* c.KubernetesClient.Resource(resource).Namespace(ns) ... name
Key(ns, res, name) == [ns |-> ns, res |-> res, name |-> name]

\* One entry of an invocation's log: an operation issued, in issue order.
\* Local operations (render, decode) have namespace NoNs and collection "-".
Call(op, ns, res, name, r) == [op |-> op, ns |-> ns, res |-> res, name |-> name, r |-> r]

Statuses == {"True", "False"}

\* One element of status.conditions, as CheckViewProcessing reads it: a map
\* with a string status and a string message (the type assertions of
\* CheckViewProcessing panic on any other element, which is not modelled).
Conditions == [status : Statuses, message : {"m"}]

CondLists == UNION {[1 .. n -> Conditions] : n \in 0 .. MaxConds}

\* What a get returns of a present managedclusterview: status.conditions is
\* absent, is not a list, or is a list of conditions.
NoView == [shape |-> "absent", conds |-> << >>]

Views ==
    {NoView, [shape |-> "other", conds |-> << >>]}
        \cup {[shape |-> "slice", conds |-> cs] : cs \in CondLists}

\* The views the remote side may answer a call with: only a get that is not
\* cut by a transport failure carries one.
AnswersOf(action, fault) == IF action = "get" /\ ~fault THEN Views ELSE {NoView}

\* Resource(gvr).Namespace(ns).Create: fault is a transport failure
RemoteCreate(o, key, fault) ==
    IF fault THEN [err |-> Err("Transport", NoStep), objs |-> o]
    ELSE IF key \in o THEN [err |-> Err("AlreadyExists", key.name), objs |-> o]
    ELSE [err |-> Nil, objs |-> o \cup {key}]

\* Resource(gvr).Namespace(ns).Get: view is what the remote agent wrote last
RemoteGet(o, key, fault, view) ==
    IF fault THEN [err |-> Err("Transport", NoStep), view |-> NoView]
    ELSE IF key \notin o THEN [err |-> Err("NotFound", key.name), view |-> NoView]
    ELSE [err |-> Nil, view |-> view]

\* Resource(gvr).Namespace(ns).Delete
RemoteDelete(o, key, fault) ==
    IF fault THEN [err |-> Err("Transport", NoStep), objs |-> o]
    ELSE IF key \notin o THEN [err |-> Err("NotFound", key.name), objs |-> o]
    ELSE [err |-> Nil, objs |-> o \ {key}]

-----------------------------------------------------------------------------
\* Invocations: inv[c] is the call in progress for cluster c, prev[c] the
\* last call for c that returned to the caller.

Idle ==
    [st |-> "idle", op |-> "none", list |-> << >>, rtype |-> "-", action |-> "-",
     i |-> 0, err |-> Nil, calls |-> << >>, obs |-> NoView, verdict |-> "-",
     start |-> {}]

NoPrev == [op |-> "none", list |-> << >>, i |-> 0, err |-> Nil]

Init ==
    /\ objs = {}
    /\ inv = [c \in Clusters |-> Idle]
    /\ prev = [c \in Clusters |-> NoPrev]
    /\ runs = 0

\* The caller is one thread of control: it starts a call when no other is open.
CanStart(c) ==
    /\ runs < MaxRuns
    /\ \A d \in Clusters : inv[d].st = "idle"

\* The call returned: the caller takes the result.
Return(c) ==
    /\ inv[c].st = "done"
    /\ prev' = [prev EXCEPT ![c] =
                  [op |-> inv[c].op, list |-> inv[c].list, i |-> inv[c].i,
                   err |-> inv[c].err]]
    /\ inv' = [inv EXCEPT ![c] = Idle]
    /\ UNCHANGED <<objs, runs>>

-----------------------------------------------------------------------------
\* LaunchKubernetesObjects

\* c.GetConfig(), then the loop over the templates
LaunchBegin(c, list, cfgOk) ==
    /\ inv' = [inv EXCEPT ![c] =
                 [Idle EXCEPT !.st = IF cfgOk /\ Len(list) > 0 THEN "running" ELSE "done",
                              !.op = "launch", !.list = list,
                              !.err = IF cfgOk THEN Nil ELSE Err("Config", NoStep),
                              !.start = objs]]
    /\ runs' = runs + 1
    /\ UNCHANGED <<objs, prev>>

LaunchStart(c, list, cfgOk) == CanStart(c) /\ LaunchBegin(c, list, cfgOk)

\* A loop that walks the templates from the end
NextItemBackwards(list, i) == list[Len(list) - i]

\* for _, item := range template: the item of the iteration after i iterations
NextItem(list, i) == list[i + 1]

\* RenderYamlTemplate: template.Parse of the preamble and the body, then Execute
RenderYamlTemplate(resourceName, f) ==
    IF f = "parse" THEN Err("TemplateParse", resourceName)
    ELSE IF f = "execute" THEN Err("TemplateRender", resourceName)
    ELSE Nil

\* A create that goes to the namespace of the first spoke
CreateKubernetesObjectsFirstSpoke(o, clusterName, name, resource, fault) ==
    RemoteCreate(o, Key("spoke1", resource, name), fault)

\* A create that clears the namespace when it fails
CreateKubernetesObjectsRollback(o, clusterName, name, resource, fault) ==
    LET r == RemoteCreate(o, Key(clusterName, resource, name), fault)
    IN  IF r.err = Nil THEN r
        ELSE [err |-> r.err, objs |-> {k \in o : k.ns /= clusterName}]

\* CreateKubernetesObjects: the create's error is returned as it is
CreateKubernetesObjects(o, clusterName, name, resource, fault) ==
    RemoteCreate(o, Key(clusterName, resource, name), fault)

\* memory.NewMemCacheClient(discoveryClient): a new, empty cache of resolved kinds
NewMemCacheClient == {}

\* mapper.RESTMapping through the cache: a discovery call is issued when the
\* kind is not in the cache
NeedsDiscovery(cache, kind) == kind \notin cache

\* Where the environment makes an iteration fail, if anywhere
LaunchFaults == {"none", "parse", "execute", "decode", "discoveryClient", "mapping", "create"}

\* One iteration of the loop, in the order of the code: render, decode,
\* discovery client, mapping through a new cached mapper, create.
\* Gives the error (Nil to go on), the calls issued and the remote objects.
LaunchIteration(o, clusterName, item, f) ==
    LET rerr == RenderYamlTemplate(item, f)
        cRender == Call("render", NoNs, "-", item, rerr.kind)
        cDecode == Call("decode", NoNs, "-", item, IF f = "decode" THEN "Decode" ELSE "nil")
        kind == KindOf(item)
        cache == NewMemCacheClient
        cDisc == IF NeedsDiscovery(cache, kind)
                   THEN <<Call("discover", NoNs, kind, item, IF f = "mapping" THEN "NoMatch" ELSE "nil")>>
                   ELSE << >>
        resource == RESTMapping(kind)
        cr == CreateKubernetesObjects(o, clusterName, item, resource, f = "create")
        cCreate == Call("create", clusterName, resource, item, cr.err.kind)
    IN  IF rerr /= Nil /\ ~IsAlreadyExists(rerr)
          THEN [err |-> rerr, calls |-> <<cRender>>, objs |-> o]
        ELSE IF f = "decode"
          THEN [err |-> Err("Decode", NoStep), calls |-> <<cRender, cDecode>>, objs |-> o]
        ELSE IF f = "discoveryClient"
          THEN [err |-> Err("DiscoveryClient", NoStep), calls |-> <<cRender, cDecode>>, objs |-> o]
        ELSE IF f = "mapping"
          THEN [err |-> Err("NoMatch", NoStep), calls |-> <<cRender, cDecode>> \o cDisc, objs |-> o]
        ELSE [err |-> cr.err, calls |-> <<cRender, cDecode>> \o cDisc \o <<cCreate>>, objs |-> cr.objs]

LaunchStep(c, f) ==
    /\ inv[c].st = "running"
    /\ inv[c].op = "launch"
    /\ inv[c].i < Len(inv[c].list)
    /\ LET item == NextItem(inv[c].list, inv[c].i)
           r == LaunchIteration(objs, c, item, f)
           last == inv[c].i + 1 = Len(inv[c].list)
       IN  /\ objs' = r.objs
           /\ inv' = [inv EXCEPT ![c].calls = inv[c].calls \o r.calls,
                                 ![c].err = r.err,
                                 ![c].i = IF r.err = Nil THEN inv[c].i + 1 ELSE inv[c].i,
                                 ![c].st = IF r.err /= Nil \/ last THEN "done" ELSE "running"]
    /\ UNCHANGED <<prev, runs>>

-----------------------------------------------------------------------------
\* ManageObjects

ManageActions == {"get", "delete", "update"}

ResourceTypes == {MCA, MCV}

\* A delete whose error is dropped
DeleteReturnsNever(err) == FALSE

\* case "delete": if err != nil { return nil, err }
DeleteReturns(err) == err /= Nil

\* One iteration of the loop over the templates: the switch on action.
\* ret tells that the function returns from inside the loop.
ManageIteration(o, clusterName, item, resourceType, action, fault, view) ==
    LET key == Key(clusterName, resourceType, item)
        g == RemoteGet(o, key, fault, view)
        d == RemoteDelete(o, key, fault)
    IN  IF action = "get"
          THEN [err |-> g.err, ret |-> TRUE, view |-> g.view, objs |-> o,
                calls |-> <<Call("get", clusterName, resourceType, item, g.err.kind)>>]
        ELSE IF action = "delete"
          THEN [err |-> d.err, ret |-> DeleteReturns(d.err), view |-> NoView, objs |-> d.objs,
                calls |-> <<Call("delete", clusterName, resourceType, item, d.err.kind)>>]
        ELSE [err |-> Err("NoConditionMatched", NoStep), ret |-> TRUE, view |-> NoView,
              objs |-> o, calls |-> << >>]

ManageStart(c, list, resourceType, action) ==
    /\ CanStart(c)
    /\ inv' = [inv EXCEPT ![c] =
                 [Idle EXCEPT !.st = IF Len(list) > 0 THEN "running" ELSE "done",
                              !.op = "manage", !.list = list, !.rtype = resourceType,
                              !.action = action, !.start = objs]]
    /\ runs' = runs + 1
    /\ UNCHANGED <<objs, prev>>

ManageStep(c) ==
    /\ inv[c].st = "running"
    /\ inv[c].op = "manage"
    /\ inv[c].i < Len(inv[c].list)
    /\ \E fault \in BOOLEAN : \E view \in AnswersOf(inv[c].action, fault) :
       LET item == NextItem(inv[c].list, inv[c].i)
           r == ManageIteration(objs, c, item, inv[c].rtype, inv[c].action, fault, view)
           last == inv[c].i + 1 = Len(inv[c].list)
       IN  /\ objs' = r.objs
           /\ inv' = [inv EXCEPT ![c].calls = inv[c].calls \o r.calls,
                                 ![c].err = r.err,
                                 ![c].obs = r.view,
                                 ![c].i = IF r.ret THEN inv[c].i ELSE inv[c].i + 1,
                                 ![c].st = IF r.ret \/ last THEN "done" ELSE "running"]
    /\ UNCHANGED <<prev, runs>>

-----------------------------------------------------------------------------
\* CheckViewProcessing and CheckStatus

RECURSIVE CheckViewLoop(_, _, _)
\* for _, condition := range viewConditions { status = condition["status"] }
CheckViewLoop(viewConditions, k, status) ==
    IF k > Len(viewConditions) THEN status
    ELSE CheckViewLoop(viewConditions, k + 1, viewConditions[k].status)

\* A loop that stops at the first condition
CheckViewFirst(viewConditions) ==
    IF Len(viewConditions) = 0 THEN "" ELSE viewConditions[1].status

\* var status string: "" when the list is empty
CheckViewProcessing(viewConditions) == CheckViewLoop(viewConditions, 1, "")

\* A break on the opposite test
ViewDoneNegated(value) == value /= "True"

\* if value == "True" { break }
ViewDone(value) == value = "True"

CheckBegin(c, resourceType) ==
    /\ inv' = [inv EXCEPT ![c] =
                 [Idle EXCEPT !.st = "running", !.op = "check",
                              !.list = ViewCreateTemplates, !.rtype = resourceType,
                              !.action = "get", !.verdict = "Polling", !.start = objs]]
    /\ runs' = runs + 1
    /\ UNCHANGED <<objs, prev>>

CheckStart(c, resourceType) == CanStart(c) /\ CheckBegin(c, resourceType)

\* A poller that removes the view it reads
CheckGetDeleting(o, clusterName, resourceType, fault, view) ==
    ManageIteration(o, clusterName, NextItem(ViewCreateTemplates, 0),
                    resourceType, "delete", fault, view)

\* c.ManageObjects(clusterName, ViewCreateTemplates, resourceType, "get")
CheckGet(o, clusterName, resourceType, fault, view) ==
    ManageIteration(o, clusterName, NextItem(ViewCreateTemplates, 0),
                    resourceType, "get", fault, view)

\* A lookup that reports a missing field as an empty list
NestedSliceLenient(view) ==
    [conds |-> view.conds, exists |-> TRUE,
     err |-> IF view.shape = "other" THEN Err("NotASlice", NoStep) ELSE Nil]

\* unstructured.NestedSlice(clusterView.Object, "status", "conditions"):
\* the list, whether the field exists, and an error when it is not a list
NestedSlice(view) ==
    [conds |-> view.conds, exists |-> view.shape /= "absent",
     err |-> IF view.shape = "other" THEN Err("NotASlice", NoStep) ELSE Nil]

\* One pass of the loop body: the get through ManageObjects, then the
\* conditions. verdict is where the pass leaves the loop: "Error" by a
\* return of an error, "Converged" by the break, "Exhausted" by the loop
\* condition, "Polling" when the loop goes on.
CheckPass(o, clusterName, resourceType, i, fault, view) ==
    LET m == CheckGet(o, clusterName, resourceType, fault, view)
        n == NestedSlice(m.view)
        value == CheckViewProcessing(n.conds)
        out(err, verdict) ==
            [err |-> err, verdict |-> verdict, calls |-> m.calls, view |-> m.view,
             objs |-> m.objs]
    IN  IF m.err /= Nil THEN out(m.err, "Error")
        ELSE IF n.err /= Nil THEN out(n.err, "Error")
        ELSE IF ~n.exists THEN out(Err("NoStructure", NoStep), "Error")
        ELSE IF ViewDone(value) THEN out(Nil, "Converged")
        ELSE IF i + 1 < MaxAttempts THEN out(Nil, "Polling")
        ELSE out(Nil, "Exhausted")

CheckAttempt(c) ==
    /\ inv[c].st = "running"
    /\ inv[c].op = "check"
    /\ inv[c].i < MaxAttempts
    /\ \E fault \in BOOLEAN : \E view \in AnswersOf("get", fault) :
       LET r == CheckPass(objs, c, inv[c].rtype, inv[c].i, fault, view)
       IN  /\ objs' = r.objs
           /\ inv' = [inv EXCEPT ![c].calls = inv[c].calls \o r.calls,
                                 ![c].err = r.err,
                                 ![c].obs = r.view,
                                 ![c].verdict = r.verdict,
                                 ![c].i = inv[c].i + 1,
                                 ![c].st = IF r.verdict = "Polling" THEN "running" ELSE "done"]
    /\ UNCHANGED <<prev, runs>>

-----------------------------------------------------------------------------
\* The caller: one call at a time, any operation on any cluster

Next ==
    \/ \E c \in Clusters, list \in TemplateLists, cfgOk \in BOOLEAN : LaunchStart(c, list, cfgOk)
    \/ \E c \in Clusters, f \in LaunchFaults : LaunchStep(c, f)
    \/ \E c \in Clusters, list \in TemplateLists, rt \in ResourceTypes, a \in ManageActions :
          ManageStart(c, list, rt, a)
    \/ \E c \in Clusters : ManageStep(c)
    \/ \E c \in Clusters, rt \in ResourceTypes : CheckStart(c, rt)
    \/ \E c \in Clusters : CheckAttempt(c)
    \/ \E c \in Clusters : Return(c)

Spec == Init /\ [][Next]_vars

-----------------------------------------------------------------------------
\* Parallel callers: one dispatch-and-poll thread per cluster. A thread starts
\* its next call when its own last call has returned; the calls of different
\* clusters interleave at every remote call.

CanStartPar(c) ==
    /\ runs < MaxRuns
    /\ inv[c].st = "idle"

LaunchStartPar(c, list, cfgOk) == CanStartPar(c) /\ LaunchBegin(c, list, cfgOk)

CheckStartPar(c, resourceType) == CanStartPar(c) /\ CheckBegin(c, resourceType)

\* The call returned to its thread, which keeps no record of it.
ReturnPar(c) ==
    /\ inv[c].st = "done"
    /\ inv' = [inv EXCEPT ![c] = Idle]
    /\ UNCHANGED <<objs, prev, runs>>

NextPar ==
    \/ \E c \in Clusters, list \in TemplateLists, cfgOk \in BOOLEAN : LaunchStartPar(c, list, cfgOk)
    \/ \E c \in Clusters, f \in LaunchFaults : LaunchStep(c, f)
    \/ \E c \in Clusters, rt \in ResourceTypes : CheckStartPar(c, rt)
    \/ \E c \in Clusters : CheckAttempt(c)
    \/ \E c \in Clusters : ReturnPar(c)

SpecPar == Init /\ [][NextPar]_vars

-----------------------------------------------------------------------------
\* Reading an invocation's log

SelectOp(calls, op) == SelectSeq(calls, LAMBDA e : e.op = op)

NamesOf(calls) == [k \in 1 .. Len(calls) |-> calls[k].name]

ListNames(list) == {list[k] : k \in 1 .. Len(list)}

\* The error kinds that only a failure of the environment produces
\* (a transport failure, a template or document that does not process, a
\* discovery that does not answer); an invocation that meets one ends with it.
InjectedFaults ==
    {"Transport", "TemplateParse", "TemplateRender", "Decode", "DiscoveryClient",
     "NoMatch", "Config"}

\* The key under which LaunchKubernetesObjects creates the object of a template
CreatedKey(c, name) == Key(c, RESTMapping(KindOf(name)), name)

-----------------------------------------------------------------------------
\* C1 (idempotent create): a dispatch of a create-sequence that follows a
\* successful dispatch of the same sequence for the same cluster, with no
\* other call for that cluster in between and no failure of the environment,
\* returns no error and leaves the remote objects as they were.
CE_C1_SecondDispatchSucceeds ==
    \A c \in Clusters :
        ( /\ inv[c].st = "done" /\ inv[c].op = "launch"
          /\ prev[c].op = "launch" /\ prev[c].list = inv[c].list
          /\ prev[c].err = Nil
          /\ inv[c].err.kind \notin InjectedFaults )
        => (inv[c].err = Nil /\ objs = inv[c].start)

\* C2 (order preservation): the creates of a dispatch are issued in list
\* order, in the cluster's namespace, each after the one before it returned
\* without error, and a dispatch that returns no error has created every
\* template exactly once.
T_C2_CreatesInListOrder ==
    \A c \in Clusters :
        inv[c].op = "launch" =>
            LET cr == SelectOp(inv[c].calls, "create")
            IN  /\ Len(cr) <= Len(inv[c].list)
                /\ NamesOf(cr) = SubSeq(inv[c].list, 1, Len(cr))
                /\ \A k \in 1 .. Len(cr) : (k < Len(cr) => cr[k].r = "nil")
                /\ (inv[c].st = "done" /\ inv[c].err = Nil)
                      => NamesOf(cr) = inv[c].list

W_C2_FourCreatesDone ==
    \E c \in Clusters :
        /\ inv[c].op = "launch" /\ inv[c].st = "done" /\ inv[c].err = Nil
        /\ inv[c].list = ActionCreateTemplates
        /\ Len(SelectOp(inv[c].calls, "create")) = 4

\* C3 (abort on failure): a dispatch whose step k fails with an error other
\* than "already exists" returns at once: no render, resolve or create of a
\* later step is in its log, and the error it returns names step k.
CE_C3_ErrorNamesFailedStep ==
    \A c \in Clusters :
        ( /\ inv[c].st = "done" /\ inv[c].op = "launch"
          /\ inv[c].err.kind \notin {"nil", "AlreadyExists", "Config"} )
        => /\ \A k \in 1 .. Len(inv[c].calls) :
                  inv[c].calls[k].name \in ListNames(SubSeq(inv[c].list, 1, inv[c].i + 1))
           /\ inv[c].err.step = inv[c].list[inv[c].i + 1]

\* C4 (poll convergence): when the get of attempt k returns a condition list
\* whose last status is "True" (every earlier attempt having left the loop
\* running), the poller has stopped with the Converged verdict and no error
\* after exactly k gets.
T_C4_ConvergesAtFirstTrue ==
    \A c \in Clusters :
        ( /\ inv[c].op = "check" /\ inv[c].i >= 1
          /\ inv[c].obs.shape = "slice" /\ Len(inv[c].obs.conds) > 0
          /\ inv[c].obs.conds[Len(inv[c].obs.conds)].status = "True" )
        => /\ inv[c].st = "done"
           /\ inv[c].verdict = "Converged"
           /\ inv[c].err = Nil
           /\ inv[c].i <= MaxAttempts
           /\ Len(SelectOp(inv[c].calls, "get")) = inv[c].i
           /\ Len(inv[c].calls) = inv[c].i

W_C4_ConvergedAtFourth ==
    \E c \in Clusters :
        /\ inv[c].op = "check" /\ inv[c].verdict = "Converged"
        /\ inv[c].i = 4
        /\ Len(SelectOp(inv[c].calls, "get")) = 4

\* C5 (poll timeout): a poll whose attempts are exhausted has issued exactly
\* MaxAttempts gets and returns a result that differs from the result of a
\* converged poll, which is no error.
CE_C5_TimeoutDistinguished ==
    \A c \in Clusters :
        (inv[c].op = "check" /\ inv[c].verdict = "Exhausted")
        => /\ Len(SelectOp(inv[c].calls, "get")) = MaxAttempts
           /\ inv[c].err /= Nil

\* C6 (transient poll errors): the poller never returns the "not found" or
\* transport error of one of its gets.
CE_C6_GetErrorNotSurfaced ==
    \A c \in Clusters :
        (inv[c].op = "check" /\ inv[c].st = "done")
        => inv[c].err.kind \notin {"NotFound", "Transport"}

\* C7 (condition tie-break): on a non-empty condition list the attempt
\* converges exactly when the status of the last element is "True", whatever
\* the earlier elements are.
T_C7_LastConditionDecides ==
    \A c \in Clusters :
        ( /\ inv[c].op = "check" /\ inv[c].i >= 1
          /\ inv[c].obs.shape = "slice" /\ Len(inv[c].obs.conds) > 0 )
        => ( inv[c].verdict = "Converged"
               <=> inv[c].obs.conds[Len(inv[c].obs.conds)].status = "True" )

W_C7_EarlierTrueLastFalse ==
    \E c \in Clusters :
        /\ inv[c].op = "check" /\ inv[c].i >= 1
        /\ inv[c].obs.shape = "slice" /\ Len(inv[c].obs.conds) = 2
        /\ inv[c].obs.conds[1].status = "True"
        /\ inv[c].obs.conds[2].status = "False"
        /\ inv[c].verdict = "Polling"

\* C8 (resolution caching): the discovery calls of a dispatch are as many as
\* the distinct kinds it resolved.
CE_C8_OneDiscoveryPerKind ==
    \A c \in Clusters :
        inv[c].op = "launch" =>
            LET d == SelectOp(inv[c].calls, "discover")
            IN  Len(d) = Cardinality({d[k].res : k \in 1 .. Len(d)})

\* C9 (teardown tolerates absence): a delete-mode call against a target in
\* which none of the named resources exists, met by no transport failure,
\* returns no error.
CE_C9_DeleteOfAbsentSucceeds ==
    \A c \in Clusters :
        ( /\ inv[c].st = "done" /\ inv[c].op = "manage" /\ inv[c].action = "delete"
          /\ \A n \in ListNames(inv[c].list) : Key(c, inv[c].rtype, n) \notin inv[c].start
          /\ inv[c].err.kind /= "Transport" )
        => inv[c].err = Nil

\* C10 (recovery by re-dispatch): a dispatch that follows a dispatch of the
\* same sequence for the same cluster which a failure of the environment
\* aborted at some step, and that itself meets no such failure, returns no
\* error and leaves every object of the sequence present.
CE_C10_RedispatchRecovers ==
    \A c \in Clusters :
        ( /\ inv[c].st = "done" /\ inv[c].op = "launch"
          /\ prev[c].op = "launch" /\ prev[c].list = inv[c].list
          /\ prev[c].err.kind \in InjectedFaults \ {"Config"}
          /\ inv[c].err.kind \notin InjectedFaults )
        => /\ inv[c].err = Nil
           /\ \A n \in ListNames(inv[c].list) : CreatedKey(c, n) \in objs

-----------------------------------------------------------------------------
\* The calls of a log that reach the remote API
RemoteOps == {"create", "get", "delete"}

\* C11 (namespace scoping): every create, get and delete of a call for
\* cluster c is issued in the namespace c, and while the call is open the
\* remote objects differ from those at its start only in namespace c.
T_C11_OwnNamespaceOnly ==
    \A c \in Clusters :
        /\ \A k \in 1 .. Len(inv[c].calls) :
              inv[c].calls[k].op \in RemoteOps => inv[c].calls[k].ns = c
        /\ inv[c].st /= "idle" =>
              \A key \in (objs \ inv[c].start) \cup (inv[c].start \ objs) : key.ns = c

W_C11_OtherNamespacePopulated ==
    \E c \in Clusters :
        /\ inv[c].op = "launch" /\ inv[c].st = "done" /\ inv[c].err = Nil
        /\ \E key \in objs : key.ns = c
        /\ \E key \in inv[c].start : key.ns /= c

\* C13 (poller state machine): the poller is in Polling, Converged or
\* Exhausted, it issues at most MaxAttempts gets, and a run that has ended
\* has ended in Converged or Exhausted.
CE_C13_EndsConvergedOrExhausted ==
    \A c \in Clusters :
        inv[c].op = "check" =>
            /\ inv[c].verdict \in {"Polling", "Converged", "Exhausted"}
            /\ Len(SelectOp(inv[c].calls, "get")) <= MaxAttempts
            /\ inv[c].st = "done" => inv[c].verdict \in {"Converged", "Exhausted"}

\* C14 (no rollback): a dispatch issues no remote call but creates, never
\* creates a template twice, and at every point, also after it aborted, the
\* objects present at its start and the objects it created are all present.
T_C14_NoRollback ==
    \A c \in Clusters :
        inv[c].op = "launch" =>
            LET cr == SelectOp(inv[c].calls, "create")
            IN  /\ \A k \in 1 .. Len(inv[c].calls) :
                      inv[c].calls[k].op \in RemoteOps => inv[c].calls[k].op = "create"
                /\ inv[c].start \subseteq objs
                /\ \A k \in 1 .. Len(cr) :
                      cr[k].r = "nil" => Key(cr[k].ns, cr[k].res, cr[k].name) \in objs
                /\ \A j, k \in 1 .. Len(cr) : j /= k => cr[j].name /= cr[k].name

W_C14_AbortedAfterTwo ==
    \E c \in Clusters :
        /\ inv[c].op = "launch" /\ inv[c].st = "done"
        /\ inv[c].list = ActionCreateTemplates
        /\ inv[c].err.kind = "Transport" /\ inv[c].i = 2
        /\ CreatedKey(c, ActionCreateTemplates[1]) \in objs
        /\ CreatedKey(c, ActionCreateTemplates[2]) \in objs

\* C15 (pre-create failures): a render, decode or discovery that fails is the
\* last call of the dispatch, which returns that error; the operation was
\* tried once, no create was issued for the template, and every create that
\* is issued goes to the collection discovery gave.
T_C15_PreCreateFailureEnds ==
    \A c \in Clusters :
        inv[c].op = "launch" =>
            LET cs == inv[c].calls
            IN  /\ \A k \in 1 .. Len(cs) :
                      (cs[k].op \in {"render", "decode", "discover"} /\ cs[k].r /= "nil")
                      => /\ k = Len(cs)
                         /\ inv[c].st = "done"
                         /\ inv[c].err.kind = cs[k].r
                         /\ \A j \in 1 .. Len(cs) :
                               cs[j].name = cs[k].name
                               => (cs[j].op /= "create" /\ (cs[j].op = cs[k].op => j = k))
                /\ inv[c].err.kind = "DiscoveryClient"
                      => /\ inv[c].st = "done"
                         /\ cs[Len(cs)].op = "decode"
                         /\ cs[Len(cs)].name = inv[c].list[inv[c].i + 1]
                /\ \A k \in 1 .. Len(cs) :
                      cs[k].op = "create" => cs[k].res = RESTMapping(KindOf(cs[k].name))

W_C15_ResolveFailedAtSecond ==
    \E c \in Clusters :
        /\ inv[c].op = "launch" /\ inv[c].st = "done"
        /\ inv[c].err.kind = "NoMatch" /\ inv[c].i = 1
        /\ Len(SelectOp(inv[c].calls, "create")) = 1

\* C16 (poller is read-only): every call of a poll is a get of the view named
\* by ViewCreateTemplates in the cluster's namespace, and the remote objects
\* are those present when the poll started.
T_C16_PollOnlyGets ==
    \A c \in Clusters :
        inv[c].op = "check" =>
            /\ \A k \in 1 .. Len(inv[c].calls) :
                  /\ inv[c].calls[k].op = "get"
                  /\ inv[c].calls[k].name = ViewCreateTemplates[1]
                  /\ inv[c].calls[k].ns = c
                  /\ inv[c].calls[k].res = inv[c].rtype
            /\ objs = inv[c].start

W_C16_PolledPresentView ==
    \E c \in Clusters :
        /\ inv[c].op = "check" /\ inv[c].verdict = "Converged"
        /\ Len(inv[c].calls) >= 2
        /\ Key(c, MCV, ViewCreateTemplates[1]) \in objs

\* C17 (teardown ordering and abort): the deletes of a delete-mode call are
\* issued in list order, each after the one before it succeeded; a delete that
\* fails with an error other than "not found" ends the call with that error;
\* and what the call deleted is absent.
T_C17_DeletesInOrderThenAbort ==
    \A c \in Clusters :
        (inv[c].op = "manage" /\ inv[c].action = "delete") =>
            LET d == SelectOp(inv[c].calls, "delete")
            IN  /\ Len(d) = Len(inv[c].calls)
                /\ Len(d) <= Len(inv[c].list)
                /\ NamesOf(d) = SubSeq(inv[c].list, 1, Len(d))
                /\ \A k \in 1 .. Len(d) :
                      /\ k < Len(d) => d[k].r = "nil"
                      /\ d[k].r \notin {"nil", "NotFound"}
                            => (inv[c].st = "done" /\ inv[c].err.kind = d[k].r)
                      /\ d[k].r = "nil" => Key(c, inv[c].rtype, d[k].name) \notin objs

W_C17_AbortedAfterOneDelete ==
    \E c \in Clusters :
        /\ inv[c].op = "manage" /\ inv[c].action = "delete" /\ inv[c].st = "done"
        /\ inv[c].list = ActionCreateTemplates
        /\ inv[c].err.kind = "Transport"
        /\ Len(inv[c].calls) = 2
        /\ Key(c, MCA, ActionCreateTemplates[2]) \in objs

\* C18 (no conditions field): a poll attempt whose get succeeds and whose view
\* has no status.conditions ends the poll on that attempt with an error.
T_C18_MissingConditionsIsError ==
    \A c \in Clusters :
        ( /\ inv[c].op = "check" /\ inv[c].i >= 1
          /\ inv[c].calls[Len(inv[c].calls)].r = "nil"
          /\ inv[c].obs.shape = "absent" )
        => /\ inv[c].st = "done"
           /\ inv[c].verdict = "Error"
           /\ inv[c].err.kind = "NoStructure"
           /\ Len(inv[c].calls) = inv[c].i

W_C18_MissingAtThird ==
    \E c \in Clusters :
        /\ inv[c].op = "check" /\ inv[c].i = 3
        /\ inv[c].err.kind = "NoStructure"
        /\ inv[c].obs.shape = "absent"

-----------------------------------------------------------------------------
\* The objects of a set that are in one namespace
InNs(o, ns) == {k \in o : k.ns = ns}

\* The objects whose create a log records as successful
CreatedBy(calls) ==
    {Key(calls[k].ns, calls[k].res, calls[k].name) :
        k \in {j \in 1 .. Len(calls) : calls[j].op = "create" /\ calls[j].r = "nil"}}

\* C12 (independent concurrent invocations): under every interleaving of the
\* calls of different clusters, a cluster's call issues its remote calls in
\* its own namespace and its creates in list order; its namespace holds what
\* it held when the call started and what the call itself created, nothing
\* else; every answer the call gets is the one its own namespace, as it was
\* at the start, gives (a create finds the object iff it was there, a get
\* finds the view iff it was there), so its result is that of a run alone;
\* and every create goes to the collection of its template's kind.
T_C12_InterleavingsIndependent ==
    \A c \in Clusters :
        LET cs == inv[c].calls
            cr == SelectOp(cs, "create")
        IN  /\ \A k \in 1 .. Len(cs) : cs[k].op \in RemoteOps => cs[k].ns = c
            /\ inv[c].op = "launch" =>
                  /\ NamesOf(cr) = SubSeq(inv[c].list, 1, Len(cr))
                  /\ \A k \in 1 .. Len(cr) : k < Len(cr) => cr[k].r = "nil"
            /\ inv[c].st /= "idle" =>
                  InNs(objs, c) = InNs(inv[c].start, c) \cup CreatedBy(cs)
            /\ \A k \in 1 .. Len(cs) :
                  LET key == Key(cs[k].ns, cs[k].res, cs[k].name)
                  IN  /\ (cs[k].op = "create" /\ cs[k].r = "AlreadyExists") => key \in inv[c].start
                      /\ (cs[k].op = "create" /\ cs[k].r = "nil") => key \notin inv[c].start
                      /\ (cs[k].op = "get" /\ cs[k].r = "NotFound") => key \notin inv[c].start
                      /\ (cs[k].op = "get" /\ cs[k].r = "nil") => key \in inv[c].start
                      /\ cs[k].op = "create" => cs[k].res = RESTMapping(KindOf(cs[k].name))

W_C12_TwoDispatchesInterleaved ==
    /\ inv["spoke1"].op = "launch" /\ inv["spoke1"].st = "running"
    /\ inv["spoke1"].list = ActionCreateTemplates /\ inv["spoke1"].i = 2
    /\ inv["spoke2"].op = "launch" /\ inv["spoke2"].st = "running"
    /\ inv["spoke2"].list = ActionCreateTemplates /\ inv["spoke2"].i = 3
    /\ inv["spoke2"].start = {}
    /\ inv["spoke1"].start /= {}

-----------------------------------------------------------------------------
\* The backup-policy client (the Client with one Spoke): placement bindings
\* and policies in the namespace open-cluster-management.

MaxBackupRuns == 3

\* Client.Spoke of the backup-policy client
BackupSpoke == "spoke1"

LIVE_POLICY == "policy-backup-live-image"
RELEASE_POLICY == "policy-backup-release-image"

OCMNamespace == "open-cluster-management"

LiveBinding == "placement-binding-backup-live-image"
ReleaseBinding == "placement-binding-backup-release-image"

\* PoliciesList := []string{LIVE_POLICY, RELEASE_POLICY}
PoliciesList == <<LIVE_POLICY, RELEASE_POLICY>>

PolicyKey(policy) == Key(OCMNamespace, "policies", policy)

BindingKey(name) == Key(OCMNamespace, "placementbindings", name)

\* Where the environment makes a render-decode-create sequence fail, if anywhere
BackupFaults == {"none", "execute", "decode", "create"}

\* tmpl.Execute, dec.Decode and Create of one object: the first error is
\* returned, and the create is issued only after both others succeeded
RenderDecodeCreate(o, key, f) ==
    LET cRender == Call("render", NoNs, "-", key.name, IF f = "execute" THEN "Execute" ELSE "nil")
        cDecode == Call("decode", NoNs, "-", key.name, IF f = "decode" THEN "Decode" ELSE "nil")
        cr == RemoteCreate(o, key, f = "create")
        cCreate == Call("create", key.ns, key.res, key.name, cr.err.kind)
    IN  IF f = "execute"
          THEN [err |-> Err("Execute", NoStep), calls |-> <<cRender>>, objs |-> o]
        ELSE IF f = "decode"
          THEN [err |-> Err("Decode", NoStep), calls |-> <<cRender, cDecode>>, objs |-> o]
        ELSE [err |-> cr.err, calls |-> <<cRender, cDecode, cCreate>>, objs |-> cr.objs]

\* CreatePlacementBinding
CreatePlacementBinding(o, PlacementBindingName, f) ==
    RenderDecodeCreate(o, BindingKey(PlacementBindingName), f)

\* c.CreatePlacementBinding(...): the returned error is dropped
BindingAborts(err) == FALSE

\* LaunchLiveImageBackup / LaunchReleaseImageBackup: the placement binding,
\* then the policy
LaunchImageBackup(o, binding, policy, fb, fp) ==
    LET b == CreatePlacementBinding(o, binding, fb)
        q == RenderDecodeCreate(b.objs, PolicyKey(policy), fp)
    IN  IF BindingAborts(b.err) THEN b
        ELSE [err |-> q.err, calls |-> b.calls \o q.calls, objs |-> q.objs]

CanStartBackup ==
    /\ runs < MaxBackupRuns
    /\ \A d \in Clusters : inv[d].st = "idle"

LaunchBackupDo(binding, policy, fb, fp) ==
    /\ CanStartBackup
    /\ LET r == LaunchImageBackup(objs, binding, policy, fb, fp)
       IN  /\ objs' = r.objs
           /\ inv' = [inv EXCEPT ![BackupSpoke] =
                        [Idle EXCEPT !.st = "done", !.op = "backup",
                                     !.list = <<binding, policy>>,
                                     !.err = r.err, !.calls = r.calls, !.start = objs]]
    /\ runs' = runs + 1
    /\ UNCHANGED prev

LaunchLiveImageBackup(fb, fp) == LaunchBackupDo(LiveBinding, LIVE_POLICY, fb, fp)

LaunchReleaseImageBackup(fb, fp) == LaunchBackupDo(ReleaseBinding, RELEASE_POLICY, fb, fp)

\* RemovePreviousResources: one iteration of the loop over PoliciesList.
\* The get's error is dropped: resource is nil when the get fails or finds
\* nothing, and only a non-nil resource is deleted.
RemoveIteration(o, policy, gfault, dfault) ==
    LET g == RemoteGet(o, PolicyKey(policy), gfault, NoView)
        d == RemoteDelete(o, PolicyKey(policy), dfault)
        cGet == Call("get", OCMNamespace, "policies", policy, g.err.kind)
        cDelete == Call("delete", OCMNamespace, "policies", policy, d.err.kind)
    IN  IF g.err /= Nil
          THEN [err |-> Nil, calls |-> <<cGet>>, objs |-> o]
          ELSE [err |-> d.err, calls |-> <<cGet, cDelete>>, objs |-> d.objs]

RemoveStart ==
    /\ CanStartBackup
    /\ inv' = [inv EXCEPT ![BackupSpoke] =
                 [Idle EXCEPT !.st = "running", !.op = "remove",
                              !.list = PoliciesList, !.start = objs]]
    /\ runs' = runs + 1
    /\ UNCHANGED <<objs, prev>>

RemoveStep ==
    /\ inv[BackupSpoke].st = "running"
    /\ inv[BackupSpoke].op = "remove"
    /\ inv[BackupSpoke].i < Len(PoliciesList)
    /\ \E gfault \in BOOLEAN, dfault \in BOOLEAN :
       LET me == inv[BackupSpoke]
           r == RemoveIteration(objs, NextItem(PoliciesList, me.i), gfault, dfault)
           last == me.i + 1 = Len(PoliciesList)
       IN  /\ objs' = r.objs
           /\ inv' = [inv EXCEPT ![BackupSpoke].calls = me.calls \o r.calls,
                                 ![BackupSpoke].err = r.err,
                                 ![BackupSpoke].i = IF r.err = Nil THEN me.i + 1 ELSE me.i,
                                 ![BackupSpoke].st = IF r.err /= Nil \/ last THEN "done" ELSE "running"]
    /\ UNCHANGED <<prev, runs>>

NextBackup ==
    \/ \E fb \in BackupFaults, fp \in BackupFaults : LaunchLiveImageBackup(fb, fp)
    \/ \E fb \in BackupFaults, fp \in BackupFaults : LaunchReleaseImageBackup(fb, fp)
    \/ RemoveStart
    \/ RemoveStep
    \/ Return(BackupSpoke)

SpecBackup == Init /\ [][NextBackup]_vars

-----------------------------------------------------------------------------
\* The error kinds that a failure of the environment gives a backup launch
BackupFaultKinds == {"Execute", "Decode", "Transport"}

\* C19 (remove leaves no policy): when RemovePreviousResources has returned
\* nil, neither backup policy exists.
CE_C19_NilMeansPoliciesGone ==
    ( /\ inv[BackupSpoke].op = "remove" /\ inv[BackupSpoke].st = "done"
      /\ inv[BackupSpoke].err = Nil )
    => (PolicyKey(LIVE_POLICY) \notin objs /\ PolicyKey(RELEASE_POLICY) \notin objs)

\* The parts of C20 on one launch: whatever the placement binding's outcome,
\* the policy is rendered once, its create is issued once when its render and
\* decode succeed (and not otherwise), the launch returns the result of the
\* policy's last step, and a create that reaches the API succeeds exactly
\* when the policy was absent.
LaunchIgnoresBinding ==
    LET me == inv[BackupSpoke]
        cs == me.calls
        policy == me.list[2]
        pr == SelectSeq(cs, LAMBDA e : e.op = "render" /\ e.name = policy)
        pc == SelectSeq(cs, LAMBDA e : e.op = "create" /\ e.name = policy)
    IN  me.op = "backup" =>
            /\ me.st = "done"
            /\ Len(pr) = 1
            /\ Len(pc) = (IF me.err.kind \in {"Execute", "Decode"} THEN 0 ELSE 1)
            /\ cs[Len(cs)].name = policy
            /\ me.err.kind = cs[Len(cs)].r
            /\ me.err.kind \notin BackupFaultKinds
                  => /\ me.err = Nil <=> PolicyKey(policy) \notin me.start
                     /\ me.err.kind = "AlreadyExists" <=> PolicyKey(policy) \in me.start
                     /\ PolicyKey(policy) \in objs

\* C20 (launch ignores the placement binding): the parts on one launch, and
\* for a launch that no failure of the environment meets: a launch that
\* follows a successful launch of the same image fails on the existing
\* policy, and a launch that follows a RemovePreviousResources that returned
\* nil succeeds, also when the placement binding exists.
CE_C20_LaunchAfterRemoveSucceeds ==
    LET me == inv[BackupSpoke]
        p == prev[BackupSpoke]
    IN  /\ LaunchIgnoresBinding
        /\ (me.op = "backup" /\ me.err.kind \notin BackupFaultKinds) =>
              /\ (p.op = "backup" /\ p.list = me.list /\ p.err = Nil)
                    => me.err.kind = "AlreadyExists"
              /\ (p.op = "remove" /\ p.err = Nil) => me.err = Nil

-----------------------------------------------------------------------------
\* SpokeClusterExists. The managed clusters are objects of the hub that the
\* program reads and never writes: which of them exist is given at the start.

\* Resource(gvr).Get without Namespace(): managedclusters are cluster scoped
ClusterScoped == ""

ManagedClusterKey(name) == Key(ClusterScoped, "managedclusters", name)

AvailableType == "ManagedClusterConditionAvailable"

\* The values of the "type" and "status" entries of a condition of a managed
\* cluster that the loop tells apart: the type it looks for or another one,
\* the status "True" or another one
ConditionTypes == {AvailableType, "HubAcceptedManagedCluster"}

ConditionStatuses == Statuses \cup {"Unknown"}

ClusterConditions == [type : ConditionTypes, status : ConditionStatuses]

ClusterCondLists == UNION {[1 .. n -> ClusterConditions] : n \in 0 .. MaxConds}

\* What a get returns of a present managed cluster: no status, a status that
\* is not a map, a status without conditions, conditions that are not a
\* list, or a list of conditions
ManagedClusters ==
    {[shape |-> sh, conds |-> << >>] :
        sh \in {"noStatus", "statusNotMap", "noConditions", "condsNotSlice"}}
        \cup {[shape |-> "slice", conds |-> cs] : cs \in ClusterCondLists}

\* The objects the remote side may answer the get with
FoundOf(fault) == IF fault THEN {NoView} ELSE ManagedClusters

\* A test that looks at the status of a condition and not at its type
ConditionAvailableAnyType(v) == v.status = "True"

\* key == "ManagedClusterConditionAvailable" and then val == "True"
ConditionAvailable(v) == v.type = AvailableType /\ v.status = "True"

\* for _, v := range conditions.([]interface{}): true at the first condition
\* of the type with status "True", false when the list ends; conds from k on
RECURSIVE ConditionsLoop(_, _)
ConditionsLoop(conds, k) ==
    IF k > Len(conds) THEN FALSE
    ELSE IF ConditionAvailable(conds[k]) THEN TRUE
    ELSE ConditionsLoop(conds, k + 1)

\* The body of SpokeClusterExists after the get: "true" or "false" as the
\* function returns, "panic" where the unchecked type assertion
\* conditions.([]interface{}) fails and the function does not return
ExistsResult(err, found) ==
    IF err /= Nil THEN "false"
    ELSE IF found.shape = "statusNotMap" THEN "false"
    ELSE IF found.shape = "noStatus" THEN "false"
    ELSE IF found.shape = "noConditions" THEN "false"
    ELSE IF found.shape = "condsNotSlice" THEN "panic"
    ELSE IF ConditionsLoop(found.conds, 1) THEN "true"
    ELSE "false"

\* SpokeClusterExists(name): one get of the managed cluster, then the look
\* through its conditions
SpokeClusterExists(name) ==
    /\ CanStart(name)
    /\ \E fault \in BOOLEAN : \E found \in FoundOf(fault) :
       LET g == RemoteGet(objs, ManagedClusterKey(name), fault, found)
           cGet == Call("get", ClusterScoped, "managedclusters", name, g.err.kind)
       IN  inv' = [inv EXCEPT ![name] =
                     [Idle EXCEPT !.st = "done", !.op = "exists",
                                  !.calls = <<cGet>>, !.obs = g.view,
                                  !.verdict = ExistsResult(g.err, g.view),
                                  !.start = objs]]
    /\ runs' = runs + 1
    /\ UNCHANGED <<objs, prev>>

\* The managed clusters that exist when the program starts
InitExists ==
    /\ objs \in SUBSET {ManagedClusterKey(c) : c \in Clusters}
    /\ inv = [c \in Clusters |-> Idle]
    /\ prev = [c \in Clusters |-> NoPrev]
    /\ runs = 0

NextExists ==
    \/ \E name \in Clusters : SpokeClusterExists(name)
    \/ \E c \in Clusters : Return(c)

SpecExists == InitExists /\ [][NextExists]_vars

-----------------------------------------------------------------------------
\* The managed cluster that a call got has a condition of the available type
\* with status "True"
HasAvailableTrue(found) ==
    /\ found.shape = "slice"
    /\ \E k \in 1 .. Len(found.conds) :
          found.conds[k].type = AvailableType /\ found.conds[k].status = "True"

====
